---- MODULE Spec2Model ----
(***************************************************************************)
(* Model of query_trades_ml.py: the MLTradeQuery client (three GET         *)
(* fetchers, the presenter, verify_trade_data, export_trades) and main().  *)
(*                                                                         *)
(* Python values are tagged records of one shape [t, n, s]:                *)
(*   t = "num"  : an int, n its value                                      *)
(*   t = "bool" : a bool, n = 1 for True and 0 for False (bool is an int)  *)
(*   t = "str"  : a str, s its text                                        *)
(*   t = "none" : None                                                     *)
(* A dict is a function from its keys (strings) to such values.  A call    *)
(* yields an outcome [kind, exc, value]: kind = "return" with the value,   *)
(* or kind = "raise" with the exception's class name in exc.               *)
(***************************************************************************)
EXTENDS Integers, Sequences, FiniteSets, TLC

\* trades:    the list of records under validation, display and export
\* args:      the parsed command line
\* responses: what the service answers on each endpoint
\* fetched:   the payload get_ml_trades returned to main
\* pc:        the position of the run
\* ret:       the outcome of the last call
\* requests:  the GET requests issued so far
\* exit_code: the process exit code, -1 while running
\* out:       the file export_trades left
VARIABLES trades, args, responses, fetched, pc, ret, requests, exit_code, out

vars == <<trades, args, responses, fetched, pc, ret, requests, exit_code, out>>

\* Longest list of trade records drawn as an input.
MaxTrades == 2
\* Timestamps and durations range over 0..MaxSec seconds after the base minute.
MaxSec == 3

(***************************************************************************)
(* Python values                                                           *)
(***************************************************************************)
Num(k) == [t |-> "num", n |-> k, s |-> ""]
Str(x) == [t |-> "str", n |-> 0, s |-> x]
Bool(b) == [t |-> "bool", n |-> IF b THEN 1 ELSE 0, s |-> ""]
None == [t |-> "none", n |-> 0, s |-> ""]

\* isinstance(v, (int, float)): bool is a subclass of int.
IsNumber(v) == v.t \in {"num", "bool"}
IsStr(v) == v.t = "str"
\* bool(v): the truth value of a scalar.
Truthy(v) ==
    CASE v.t \in {"num", "bool"} -> v.n # 0
      [] v.t = "str" -> v.s # ""
      [] OTHER -> FALSE

Abs(x) == IF x < 0 THEN -x ELSE x

Return(v) == [kind |-> "return", exc |-> "", value |-> v]
Raise(e) == [kind |-> "raise", exc |-> e, value |-> None]
Pending == [kind |-> "pending", exc |-> "", value |-> None]

(***************************************************************************)
(* Timestamps.  The strings the model knows are second k of the base       *)
(* minute in three spellings (UTC with a Z suffix, UTC with an explicit    *)
(* offset, no offset) and one string that is no timestamp.                 *)
(***************************************************************************)
Seconds == 0 .. MaxSec
IsoPrefix(k) == "2024-01-01T00:00:0" \o ToString(k)
IsoZ(k) == IsoPrefix(k) \o "Z"
IsoOffset(k) == IsoPrefix(k) \o "+00:00"
IsoNaive(k) == IsoPrefix(k)
NotADate == "not-a-date"

\* str.replace('Z', '+00:00') on the strings above.
ReplaceZ(x) ==
    IF \E k \in Seconds : x = IsoZ(k)
    THEN IsoOffset(CHOOSE k \in Seconds : x = IsoZ(k))
    ELSE x

\* datetime.fromisoformat: a datetime [aware, secs], or ValueError.
fromisoformat(x) ==
    IF \E k \in Seconds : x = IsoOffset(k)
    THEN Return([aware |-> TRUE, secs |-> CHOOSE k \in Seconds : x = IsoOffset(k)])
    ELSE IF \E k \in Seconds : x = IsoNaive(k)
    THEN Return([aware |-> FALSE, secs |-> CHOOSE k \in Seconds : x = IsoNaive(k)])
    ELSE [kind |-> "raise", exc |-> "ValueError", value |-> [aware |-> FALSE, secs |-> 0]]

\* datetime.fromisoformat(v.replace('Z', '+00:00')) on a Python value v:
\* only str has the replace used here.
ParseTime(v) ==
    IF ~IsStr(v)
    THEN [kind |-> "raise", exc |-> "AttributeError", value |-> [aware |-> FALSE, secs |-> 0]]
    ELSE fromisoformat(ReplaceZ(v.s))

(***************************************************************************)
(* verify_trade_data                                                       *)
(***************************************************************************)
required_fields ==
    <<"id", "pair", "entry_price", "exit_price", "pnl", "duration_seconds",
      "entry_time", "exit_time", "success", "market_regime", "trend_strength",
      "volatility", "created_at">>

valid_regimes == {"Consolidating", "Trending", "Volatile"}

Range(q) == {q[k] : k \in 1 .. Len(q)}

\* One message f"Trade {pos}: {text} ...": the text, the 1-based position,
\* the field it is about, the offending value and (for a duration mismatch)
\* the calculated duration.
Msg(pos, text, fld, v, c) ==
    [pos |-> pos, text |-> text, field |-> fld, value |-> v, calc |-> c]

NoTradesFound == Msg(0, "No trades found", "", None, 0)

\* The accumulator of one validation pass.
Acc(e, w, x) == [errors |-> e, warnings |-> w, exc |-> x]
AddError(acc, m) == [acc EXCEPT !.errors = Append(@, m)]
AddWarning(acc, m) == [acc EXCEPT !.warnings = Append(@, m)]
Throw(acc, e) == [acc EXCEPT !.exc = e]

Has(trade, f) == f \in DOMAIN trade

\* Variant of MissingFieldErrors that numbers the records from 0.
MissingFieldErrorsMut(i, trade) ==
    LET absent == SelectSeq(required_fields, LAMBDA f : ~Has(trade, f))
    IN  [k \in 1 .. Len(absent) |->
            Msg(i, "Missing required field", absent[k], None, 0)]

\* Lines 178-180: one error per absent required field, in the list's order.
MissingFieldErrors(i, trade) ==
    LET absent == SelectSeq(required_fields, LAMBDA f : ~Has(trade, f))
    IN  [k \in 1 .. Len(absent) |->
            Msg(i + 1, "Missing required field", absent[k], None, 0)]

CheckMissing(acc, i, trade) ==
    [acc EXCEPT !.errors = @ \o MissingFieldErrors(i, trade)]

\* Lines 183-187: trade[f] <= 0 raises TypeError unless the value is a number.
CheckPrice(acc, i, trade, f) ==
    IF acc.exc # "" \/ ~Has(trade, f) THEN acc
    ELSE IF ~IsNumber(trade[f]) THEN Throw(acc, "TypeError")
    ELSE IF trade[f].n <= 0
         THEN AddError(acc, Msg(i + 1, "Invalid " \o f, f, trade[f], 0))
         ELSE acc

\* Lines 189-190.
CheckPnl(acc, i, trade) ==
    IF acc.exc # "" \/ ~Has(trade, "pnl") THEN acc
    ELSE IF ~IsNumber(trade["pnl"])
         THEN AddError(acc, Msg(i + 1, "Invalid pnl type", "pnl", trade["pnl"], 0))
         ELSE acc

\* Lines 192-193.
CheckDuration(acc, i, trade) ==
    IF acc.exc # "" \/ ~Has(trade, "duration_seconds") THEN acc
    ELSE IF ~IsNumber(trade["duration_seconds"]) THEN Throw(acc, "TypeError")
    ELSE IF trade["duration_seconds"].n < 0
         THEN AddWarning(acc, Msg(i + 1, "Negative duration", "duration_seconds",
                                  trade["duration_seconds"], 0))
         ELSE acc

\* Lines 195-196.
CheckTrend(acc, i, trade) ==
    IF acc.exc # "" \/ ~Has(trade, "trend_strength") THEN acc
    ELSE IF ~IsNumber(trade["trend_strength"]) THEN Throw(acc, "TypeError")
    ELSE IF ~(0 <= trade["trend_strength"].n /\ trade["trend_strength"].n <= 1)
         THEN AddWarning(acc, Msg(i + 1, "Trend strength out of range", "trend_strength",
                                  trade["trend_strength"], 0))
         ELSE acc

\* Lines 198-199.
CheckVolatility(acc, i, trade) ==
    IF acc.exc # "" \/ ~Has(trade, "volatility") THEN acc
    ELSE IF ~IsNumber(trade["volatility"]) THEN Throw(acc, "TypeError")
    ELSE IF trade["volatility"].n < 0
         THEN AddWarning(acc, Msg(i + 1, "Negative volatility", "volatility",
                                  trade["volatility"], 0))
         ELSE acc

\* Lines 202-204: membership in a list compares with ==, which never raises.
CheckRegime(acc, i, trade) ==
    IF acc.exc # "" \/ ~Has(trade, "market_regime") THEN acc
    ELSE IF ~(IsStr(trade["market_regime"]) /\ trade["market_regime"].s \in valid_regimes)
         THEN AddWarning(acc, Msg(i + 1, "Unknown market regime", "market_regime",
                                  trade["market_regime"], 0))
         ELSE acc

\* Variant of ExitNotAfterEntry that accepts equal times.
ExitNotAfterEntryMut(entry, exit) == exit.secs < entry.secs

\* Line 212: exit_time <= entry_time.
ExitNotAfterEntry(entry, exit) == exit.secs <= entry.secs

\* Variant of DurationMismatch with no tolerance at exactly one second.
DurationMismatchMut(calculated, stored) == Abs(calculated - stored) >= 1

\* Line 217: abs(calculated_duration - stored) > 1.
DurationMismatch(calculated, stored) == Abs(calculated - stored) > 1

\* Lines 212-218, with both timestamps parsed.  Comparing or subtracting an
\* offset-aware and an offset-naive datetime raises TypeError, which the
\* except ValueError clause does not catch.
CheckParsedTimes(acc, i, trade, entry, exit) ==
    IF entry.aware # exit.aware THEN Throw(acc, "TypeError")
    ELSE
      LET a1 == IF ExitNotAfterEntry(entry, exit)
                THEN AddError(acc, Msg(i + 1, "Exit time before or equal to entry time",
                                       "exit_time", trade["exit_time"], 0))
                ELSE acc
          calculated_duration == exit.secs - entry.secs
      IN  IF ~Has(trade, "duration_seconds") THEN a1
          ELSE IF ~IsNumber(trade["duration_seconds"]) THEN Throw(a1, "TypeError")
          ELSE IF DurationMismatch(calculated_duration, trade["duration_seconds"].n)
               THEN AddWarning(a1, Msg(i + 1, "Duration mismatch", "duration_seconds",
                                       trade["duration_seconds"], calculated_duration))
               ELSE a1

\* Lines 207-221: the try block catches ValueError only.
CheckTimes(acc, i, trade) ==
    IF acc.exc # "" \/ ~(Has(trade, "entry_time") /\ Has(trade, "exit_time")) THEN acc
    ELSE
      LET pe == ParseTime(trade["entry_time"])
          px == ParseTime(trade["exit_time"])
      IN  IF pe.kind = "raise"
          THEN IF pe.exc = "ValueError"
               THEN AddError(acc, Msg(i + 1, "Invalid datetime format", "entry_time",
                                      trade["entry_time"], 0))
               ELSE Throw(acc, pe.exc)
          ELSE IF px.kind = "raise"
          THEN IF px.exc = "ValueError"
               THEN AddError(acc, Msg(i + 1, "Invalid datetime format", "exit_time",
                                      trade["exit_time"], 0))
               ELSE Throw(acc, px.exc)
          ELSE CheckParsedTimes(acc, i, trade, pe.value, px.value)

\* Lines 172-221: the loop body for the record at 0-based index i.
VerifyRecord(acc, i, trade) ==
    LET a1 == CheckMissing(acc, i, trade)
        a2 == CheckPrice(a1, i, trade, "entry_price")
        a3 == CheckPrice(a2, i, trade, "exit_price")
        a4 == CheckPnl(a3, i, trade)
        a5 == CheckDuration(a4, i, trade)
        a6 == CheckTrend(a5, i, trade)
        a7 == CheckVolatility(a6, i, trade)
        a8 == CheckRegime(a7, i, trade)
    IN  CheckTimes(a8, i, trade)

\* The for loop from 0-based index i on; an exception leaves the loop.
RECURSIVE VerifyLoop(_, _, _)
VerifyLoop(acc, i, ts) ==
    IF i >= Len(ts) \/ acc.exc # "" THEN acc
    ELSE VerifyLoop(VerifyRecord(acc, i, ts[i + 1]), i + 1, ts)

\* Variant of ReportValid in which a warning makes the report invalid.
ReportValidMut(errors, warnings) == Len(errors) = 0 /\ Len(warnings) = 0

\* Line 224: len(errors) == 0.
ReportValid(errors, warnings) == Len(errors) = 0

\* Lines 164-228.  The report is a dict: a function from its keys.
verify_trade_data(ts) ==
    IF Len(ts) = 0
    THEN Return([valid |-> FALSE, errors |-> <<NoTradesFound>>])
    ELSE
      LET acc == VerifyLoop(Acc(<<>>, <<>>, ""), 0, ts)
      IN  IF acc.exc # "" THEN Raise(acc.exc)
          ELSE Return([valid |-> ReportValid(acc.errors, acc.warnings),
                       errors |-> acc.errors,
                       warnings |-> acc.warnings,
                       total_trades |-> Len(ts)])

(***************************************************************************)
(* JSON payloads and HTTP responses                                        *)
(*                                                                         *)
(* A payload (the body's data field, and what a fetcher returns) is        *)
(* [pk, items, obj]: a list of records (pk = "list", items), an object     *)
(* (pk = "object", obj), or null / None (pk = "null").                     *)
(***************************************************************************)
EmptyDict == [f \in {} |-> None]
ListPayload(ts) == [pk |-> "list", items |-> ts, obj |-> EmptyDict]
ObjectPayload(d) == [pk |-> "object", items |-> <<>>, obj |-> d]
NullPayload == [pk |-> "null", items |-> <<>>, obj |-> EmptyDict]
AbsentPayload == [pk |-> "absent", items |-> <<>>, obj |-> EmptyDict]

\* bool(payload): an empty list, an empty dict and None are false.
PayloadTruthy(p) ==
    CASE p.pk = "list" -> Len(p.items) > 0
      [] p.pk = "object" -> DOMAIN p.obj # {}
      [] OTHER -> FALSE

\* A response: net = "error" when the request itself fails (connection
\* refused, timeout); otherwise the status and the body.  json is the body's
\* shape as JSON: "malformed", "object", "list", "null", "string" or
\* "number"; for an object, success and data are its fields (Absent,
\* AbsentPayload when the key is missing).
Response(net, status, json, success, data) ==
    [net |-> net, status |-> status, json |-> json, success |-> success, data |-> data]

\* Response.raise_for_status(): HTTPError for a 4xx or 5xx status only.
RaisesForStatus(status) == 400 <= status /\ status < 600

\* Lines 41-56 (and 63-78, 85-100) after the URL is built: the request, the
\* status check, the JSON parse and the envelope check.  RequestException
\* (which HTTPError extends) and JSONDecodeError are caught and give the
\* empty result; data.get on a body that is no JSON object raises
\* AttributeError, which no clause catches.
FetchData(resp, empty) ==
    IF resp.net = "error" THEN Return(empty)
    ELSE IF RaisesForStatus(resp.status) THEN Return(empty)
    ELSE IF resp.json = "malformed" THEN Return(empty)
    ELSE IF resp.json # "object" THEN [kind |-> "raise", exc |-> "AttributeError", value |-> empty]
    ELSE IF resp.success.t # "absent" /\ Truthy(resp.success) /\ resp.data.pk # "absent"
         THEN Return(resp.data)
         ELSE Return(empty)

\* Lines 35-56.
get_ml_trades(resp) == FetchData(resp, ListPayload(<<>>))
\* Lines 58-78.
get_ml_stats(resp) == FetchData(resp, NullPayload)
\* Lines 80-100.
get_ml_status(resp) == FetchData(resp, NullPayload)

(***************************************************************************)
(* Presenter                                                               *)
(***************************************************************************)
\* The first exception of a sequence of steps, "" when none raises.
RECURSIVE FirstExc(_)
FirstExc(q) ==
    IF q = <<>> THEN "" ELSE IF Head(q) # "" THEN Head(q) ELSE FirstExc(Tail(q))

\* trade[f] with datetime.fromisoformat(....replace('Z', '+00:00')).
TimeFieldExc(trade, f) ==
    IF ~Has(trade, f) THEN "KeyError" ELSE ParseTime(trade[f]).exc

\* trade[f] * 100: a str is repeated, None raises.
TimesExc(trade, f) ==
    IF ~Has(trade, f) THEN "KeyError"
    ELSE IF trade[f].t = "none" THEN "TypeError" ELSE ""

\* trade[f] / 60 and trade[f] > 0: only numbers.
ArithExc(trade, f) ==
    IF ~Has(trade, f) THEN "KeyError"
    ELSE IF ~IsNumber(trade[f]) THEN "TypeError" ELSE ""

\* trade[f] alone, as in a truth test or a plain {trade[f]}.
GetExc(trade, f) == IF ~Has(trade, f) THEN "KeyError" ELSE ""

\* f"{trade[f]:.4f}": ValueError for a str, TypeError for None.
FloatFormatExc(trade, f) ==
    IF ~Has(trade, f) THEN "KeyError"
    ELSE IF trade[f].t = "str" THEN "ValueError"
    ELSE IF trade[f].t = "none" THEN "TypeError" ELSE ""

\* Lines 102-124: the exception format_trade raises on the record, in the
\* order the function reads the fields, or the formatted line.
format_trade(trade) ==
    LET exc == FirstExc(<<TimeFieldExc(trade, "entry_time"),
                          TimeFieldExc(trade, "exit_time"),
                          TimeFieldExc(trade, "created_at"),
                          TimesExc(trade, "pnl"),
                          ArithExc(trade, "duration_seconds"),
                          GetExc(trade, "success"),
                          ArithExc(trade, "pnl"),
                          GetExc(trade, "pair"),
                          FloatFormatExc(trade, "entry_price"),
                          FloatFormatExc(trade, "exit_price"),
                          GetExc(trade, "market_regime"),
                          FloatFormatExc(trade, "trend_strength"),
                          FloatFormatExc(trade, "volatility")>>)
    IN  IF exc # "" THEN Raise(exc)
        ELSE Return([status_emoji |-> IF Truthy(trade["success"]) THEN "ok" ELSE "fail",
                     pnl_emoji |-> IF trade["pnl"].n > 0 THEN "gain"
                                   ELSE IF trade["pnl"].n < 0 THEN "loss" ELSE "flat",
                     pair |-> trade["pair"],
                     time |-> ParseTime(trade["entry_time"]).value.secs])

\* Lines 135-141 from the k-th record on.
RECURSIVE DisplayLoop(_, _, _)
DisplayLoop(ts, k, show_details) ==
    IF k > Len(ts) THEN Return(None)
    ELSE IF format_trade(ts[k]).kind = "raise" THEN Raise(format_trade(ts[k]).exc)
    ELSE IF show_details /\ ~Has(ts[k], "id") THEN Raise("KeyError")
    ELSE DisplayLoop(ts, k + 1, show_details)

\* Lines 126-141 on a fetched payload.  Iterating a dict yields its keys,
\* and format_trade on a str raises TypeError at its first subscript.
display_trades(p, show_details) ==
    IF ~PayloadTruthy(p) THEN Return(None)
    ELSE IF p.pk = "object" THEN Raise("TypeError")
    ELSE DisplayLoop(p.items, 1, show_details)

\* f"{d[key] * 100:.1f}".
PercentExc(d, key) ==
    IF key \notin DOMAIN d THEN "KeyError"
    ELSE IF d[key].t = "none" THEN "TypeError"
    ELSE IF d[key].t = "str" THEN "ValueError" ELSE ""

\* Lines 143-151 on a truthy payload; subscripting a list with a str raises
\* TypeError.
display_stats(p) ==
    IF p.pk = "list" THEN Raise("TypeError")
    ELSE LET exc == FirstExc(<<GetExc(p.obj, "total_trades"), PercentExc(p.obj, "win_rate"),
                               PercentExc(p.obj, "avg_pnl"), PercentExc(p.obj, "avg_win"),
                               PercentExc(p.obj, "avg_loss")>>)
         IN  IF exc # "" THEN Raise(exc) ELSE Return(None)

\* Lines 153-162 on a truthy payload.
display_ml_status(p) ==
    IF p.pk = "list" THEN Raise("TypeError")
    ELSE LET exc == FirstExc(<<GetExc(p.obj, "enabled"), PercentExc(p.obj, "min_confidence"),
                               PercentExc(p.obj, "max_position_size"),
                               GetExc(p.obj, "total_trades"), PercentExc(p.obj, "win_rate"),
                               PercentExc(p.obj, "avg_pnl")>>)
         IN  IF exc # "" THEN Raise(exc) ELSE Return(None)

(***************************************************************************)
(* export_trades                                                           *)
(***************************************************************************)
fieldnames ==
    <<"id", "pair", "entry_price", "exit_price", "pnl", "duration_seconds",
      "entry_time", "exit_time", "success", "market_regime", "trend_strength",
      "volatility", "created_at">>

\* str.lower() on the format names the model draws.
Lower(x) ==
    CASE x = "CSV" -> "csv"
      [] x = "JSON" -> "json"
      [] OTHER -> x

\* str(v), as an f-string renders a value.
PyStr(v) ==
    CASE v.t = "str" -> v.s
      [] v.t = "num" -> ToString(v.n)
      [] v.t = "bool" -> IF v.n = 1 THEN "True" ELSE "False"
      [] OTHER -> "None"

\* The text csv.writer writes for a value: str(v), and nothing for None.
CellText(v) == IF v.t = "none" THEN "" ELSE PyStr(v)

\* DictWriter._dict_to_list with restval = '': the row in fieldnames' order.
CsvRow(trade) ==
    [k \in 1 .. Len(fieldnames) |->
        IF Has(trade, fieldnames[k]) THEN CellText(trade[fieldnames[k]]) ELSE ""]

\* DictWriter's default extrasaction = 'raise': a key outside fieldnames.
HasExtraKeys(trade) == (DOMAIN trade) \ Range(fieldnames) # {}

\* Lines 248-249: the rows written before the loop ends or a row raises.
RECURSIVE WriteRows(_, _, _)
WriteRows(ts, k, rows) ==
    IF k > Len(ts) THEN [exc |-> "", rows |-> rows]
    ELSE IF HasExtraKeys(ts[k]) THEN [exc |-> "ValueError", rows |-> rows]
    ELSE WriteRows(ts, k + 1, Append(rows, CsvRow(ts[k])))

\* A file: its name, the CSV rows or the dumped JSON document.
File(name, rows, doc) == [name |-> name, rows |-> rows, doc |-> doc]
NoFile == File("", <<>>, <<>>)

\* Lines 230-259.  filename = "" stands for None; now is
\* datetime.now().strftime("%Y%m%d_%H%M%S").  The result is the call's
\* outcome and the file it leaves.
export_trades(ts, format_type, filename, now) ==
    IF Len(ts) = 0 THEN [outcome |-> Return(None), file |-> NoFile]
    ELSE IF filename = "" /\ ~Has(ts[1], "pair")
    THEN [outcome |-> Raise("KeyError"), file |-> NoFile]
    ELSE
      LET name == IF filename = ""
                  THEN "ml_trades_" \o PyStr(ts[1]["pair"]) \o "_" \o now
                  ELSE filename
      IN  IF Lower(format_type) = "csv"
          THEN LET w == WriteRows(ts, 1, <<fieldnames>>)
               IN  [outcome |-> IF w.exc # "" THEN Raise(w.exc) ELSE Return(None),
                    file |-> File(name \o ".csv", w.rows, <<>>)]
          ELSE IF Lower(format_type) = "json"
          THEN [outcome |-> Return(None), file |-> File(name \o ".json", <<>>, ts)]
          ELSE [outcome |-> Return(None), file |-> NoFile]

(***************************************************************************)
(* Inputs: trade records                                                   *)
(***************************************************************************)
\* The record of the specification's scenario, with whole numbers.
BaseTrade ==
    [id |-> Num(1), pair |-> Str("SOLUSDC"), entry_price |-> Num(10),
     exit_price |-> Num(11), pnl |-> Num(1), duration_seconds |-> Num(2),
     entry_time |-> Str(IsoZ(0)), exit_time |-> Str(IsoZ(2)), success |-> Bool(TRUE),
     market_regime |-> Str("Trending"), trend_strength |-> Num(1),
     volatility |-> Num(0), created_at |-> Str(IsoZ(2))]

\* Marks a key to leave out of a record.
Absent == [t |-> "absent", n |-> 0, s |-> ""]

\* BaseTrade with the keys of over set to over's values, or left out.
MkTrade(over) ==
    LET pick(f) == IF f \in DOMAIN over THEN over[f] ELSE BaseTrade[f]
        keys == {f \in (DOMAIN BaseTrade) \cup (DOMAIN over) : pick(f) # Absent}
    IN  [f \in keys |-> pick(f)]

EntryChoices == {Absent, Str(IsoZ(1)), Str(IsoNaive(1)), Str(NotADate), Num(5)}
ExitChoices == {Absent, Str(NotADate), None, Str(IsoNaive(2))} \cup {Str(IsoZ(k)) : k \in Seconds}
DurationChoices == {Absent, Num(-1), Str("abc")} \cup {Num(k) : k \in Seconds}
FieldChoices == {Absent, None, Num(0), Num(-1), Num(2), Str("abc")}

TimeTrades ==
    {MkTrade([entry_time |-> e, exit_time |-> x, duration_seconds |-> d]) :
        e \in EntryChoices, x \in ExitChoices, d \in DurationChoices}

FieldTrades ==
    {MkTrade([g \in {f} |-> v]) : f \in Range(required_fields), v \in FieldChoices}

\* A record with a key outside the thirteen, and the empty record.
ExtraTrade == MkTrade([extra |-> Num(7)])
EmptyTrade == EmptyDict

\* A record with one absent field, an invalid price, an unknown regime, an
\* exit time equal to its entry time and a duration two seconds off.
FaultyTrade ==
    MkTrade([id |-> Absent, entry_price |-> Num(0), market_regime |-> Str("Sideways"),
             exit_time |-> Str(IsoZ(0))])

FocusTrades == TimeTrades \cup FieldTrades \cup {ExtraTrade, EmptyTrade}
FillerTrades == {BaseTrade, FaultyTrade}

\* Lists of up to MaxTrades records: one drawn from FocusTrades at any
\* position, the others from FillerTrades.
TradeLists ==
    {<<>>} \cup
    UNION {{[k \in 1 .. n |-> IF k = p THEN f ELSE fill[k]] :
              p \in 1 .. n, f \in FocusTrades, fill \in [1 .. n -> FillerTrades]} :
           n \in 1 .. MaxTrades}

(***************************************************************************)
(* Inputs: command lines and responses                                     *)
(***************************************************************************)
Args(stats, status, verify, details, export, output) ==
    [pair |-> "SOLUSDC", stats |-> stats, status |-> status, verify |-> verify,
     details |-> details, export |-> export, output |-> output]
NoArgs == Args(FALSE, FALSE, FALSE, FALSE, "", "")

\* argparse admits csv and json only; --output matters with --export.
ArgSets ==
    {Args(st, su, v, d, e, o) :
        st \in BOOLEAN, su \in BOOLEAN, v \in BOOLEAN, d \in BOOLEAN,
        e \in {"", "csv", "json"}, o \in {"", "out"}}

Timestamps == {"20240101_000000"}

Ok(data) == Response("ok", 200, "object", Bool(TRUE), data)
NetworkError == Response("error", 0, "malformed", Absent, AbsentPayload)

\* Every shape of answer: a failed request, or a status with a body that
\* is malformed, a JSON value that is no object, or an object with or
\* without success and data.
Statuses == {200, 304, 404, 500}
SuccessChoices == {Absent, None, Bool(TRUE), Bool(FALSE), Num(1), Str("yes")}
FullStats ==
    [total_trades |-> Num(4), win_rate |-> Num(1), avg_pnl |-> Num(0),
     avg_win |-> Num(1), avg_loss |-> Num(-1)]
FullStatus ==
    [enabled |-> Bool(TRUE), min_confidence |-> Num(1), max_position_size |-> Num(1),
     total_trades |-> Num(4), win_rate |-> Num(1), avg_pnl |-> Num(0)]
DataChoices ==
    {AbsentPayload, NullPayload, ListPayload(<<>>), ListPayload(<<BaseTrade>>),
     ObjectPayload(EmptyDict), ObjectPayload(FullStats)}
AllResponses ==
    {NetworkError}
    \cup {Response("ok", st, j, Absent, AbsentPayload) :
            st \in Statuses, j \in {"malformed", "list", "null", "string", "number"}}
    \cup {Response("ok", st, "object", su, d) :
            st \in Statuses, su \in SuccessChoices, d \in DataChoices}

\* Answers on /ml/trades for a run of main: failures, payloads that are no
\* list, and lists of records.
MainTrades ==
    {ExtraTrade, EmptyTrade,
     MkTrade([pair |-> Absent]), MkTrade([id |-> Absent]),
     MkTrade([created_at |-> Str(NotADate)]), MkTrade([entry_price |-> Str("abc")]),
     MkTrade([exit_time |-> Str(NotADate)]), MkTrade([trend_strength |-> Num(2)])}
MainTradeLists ==
    UNION {{[k \in 1 .. n |-> IF k = p THEN f ELSE BaseTrade] :
              p \in 1 .. n, f \in MainTrades \cup FillerTrades} :
           n \in 1 .. MaxTrades}
TradesResponses ==
    {NetworkError,
     Response("ok", 500, "malformed", Absent, AbsentPayload),
     Response("ok", 200, "malformed", Absent, AbsentPayload),
     Response("ok", 200, "list", Absent, AbsentPayload),
     Response("ok", 200, "object", Bool(FALSE), AbsentPayload),
     Ok(NullPayload), Ok(ListPayload(<<>>)), Ok(ObjectPayload(FullStats))}
    \cup {Ok(ListPayload(ts)) : ts \in MainTradeLists}
StatsResponses ==
    {NetworkError, Response("ok", 200, "null", Absent, AbsentPayload),
     Ok(ObjectPayload(FullStats)), Ok(ObjectPayload([total_trades |-> Num(4)])),
     Ok(ObjectPayload([FullStats EXCEPT !["win_rate"] = None]))}
StatusResponses ==
    {NetworkError, Response("ok", 200, "string", Absent, AbsentPayload),
     Ok(ObjectPayload(FullStatus)), Ok(ObjectPayload([enabled |-> Bool(TRUE)]))}

Endpoints(rt, rs, ru) == [trades |-> rt, stats |-> rs, status |-> ru]
NoResponses == Endpoints(NetworkError, NetworkError, NetworkError)

(***************************************************************************)
(* State                                                                   *)
(***************************************************************************)
Idle(p) ==
    /\ pc = p
    /\ fetched = AbsentPayload
    /\ ret = Pending
    /\ requests = <<>>
    /\ exit_code = -1
    /\ out = NoFile

(***************************************************************************)
(* The validator on its own: verify_trade_data applied to a drawn list.    *)
(***************************************************************************)
InitVerify ==
    /\ trades \in TradeLists
    /\ args = NoArgs
    /\ responses = NoResponses
    /\ Idle("verify")

CallVerify ==
    /\ pc = "verify"
    /\ ret' = verify_trade_data(trades)
    /\ pc' = "done"
    /\ UNCHANGED <<trades, args, responses, fetched, requests, exit_code, out>>

NextVerify == CallVerify

SpecVerify == InitVerify /\ [][NextVerify]_vars

(***************************************************************************)
(* The exporter on its own.                                                *)
(***************************************************************************)
ExportFormats == {"csv", "CSV", "json", "xml"}

InitExport ==
    /\ trades \in {<<>>} \cup MainTradeLists
    /\ \E e \in ExportFormats, o \in {"", "out"} :
          args = Args(FALSE, FALSE, FALSE, FALSE, e, o)
    /\ responses = NoResponses
    /\ Idle("export")

CallExport ==
    /\ pc = "export"
    /\ \E now \in Timestamps :
          LET r == export_trades(trades, args.export, args.output, now)
          IN  ret' = r.outcome /\ out' = r.file
    /\ pc' = "done"
    /\ UNCHANGED <<trades, args, responses, fetched, requests, exit_code>>

NextExport == CallExport

SpecExport == InitExport /\ [][NextExport]_vars

(***************************************************************************)
(* The three fetchers on their own, each against every shape of answer.    *)
(***************************************************************************)
InitFetch ==
    /\ trades = <<>>
    /\ args = NoArgs
    /\ \E r \in AllResponses : responses = Endpoints(r, r, r)
    /\ Idle("call")

\* The request line of each fetcher (lines 37-41, 60-63, 82-85).
TradesUrl(pair) == "/ml/trades/" \o pair
StatsUrl(pair) == "/ml/stats/" \o pair
StatusUrl == "/ml/status"

CallGetMlTrades ==
    /\ pc = "call"
    /\ requests' = Append(requests, TradesUrl(args.pair))
    /\ ret' = get_ml_trades(responses.trades)
    /\ pc' = "done"
    /\ UNCHANGED <<trades, args, responses, fetched, exit_code, out>>

CallGetMlStats ==
    /\ pc = "call"
    /\ requests' = Append(requests, StatsUrl(args.pair))
    /\ ret' = get_ml_stats(responses.stats)
    /\ pc' = "done"
    /\ UNCHANGED <<trades, args, responses, fetched, exit_code, out>>

CallGetMlStatus ==
    /\ pc = "call"
    /\ requests' = Append(requests, StatusUrl)
    /\ ret' = get_ml_status(responses.status)
    /\ pc' = "done"
    /\ UNCHANGED <<trades, args, responses, fetched, exit_code, out>>

NextFetch == CallGetMlTrades \/ CallGetMlStats \/ CallGetMlStatus

SpecFetch == InitFetch /\ [][NextFetch]_vars

(***************************************************************************)
(* main(): one run of the command front-end.                               *)
(***************************************************************************)
Init ==
    /\ trades = <<>>
    /\ args \in {a \in ArgSets : a.export = "" => a.output = ""}
    /\ \E rt \in TradesResponses, rs \in StatsResponses, ru \in StatusResponses :
          /\ ~args.stats => rs = NetworkError
          /\ ~args.status => ru = NetworkError
          /\ responses = Endpoints(rt, rs, ru)
    /\ Idle("fetch")

\* An exception no handler catches ends the process with a traceback and
\* exit code 1.
Crash(r) ==
    /\ ret' = r
    /\ pc' = "crashed"
    /\ exit_code' = 1

\* Lines 282-286.
MainFetch ==
    /\ pc = "fetch"
    /\ requests' = Append(requests, TradesUrl(args.pair))
    /\ LET r == get_ml_trades(responses.trades)
       IN  IF r.kind = "raise"
           THEN Crash(r) /\ UNCHANGED <<trades, fetched>>
           ELSE /\ ret' = r
                /\ fetched' = r.value
                /\ trades' = r.value.items
                /\ IF ~PayloadTruthy(r.value)
                   THEN pc' = "exited" /\ exit_code' = 1
                   ELSE pc' = "display" /\ UNCHANGED exit_code
    /\ UNCHANGED <<args, responses, out>>

\* Line 289.
MainDisplay ==
    /\ pc = "display"
    /\ LET r == display_trades(fetched, args.details)
       IN  IF r.kind = "raise"
           THEN Crash(r)
           ELSE ret' = r /\ pc' = "stats" /\ UNCHANGED exit_code
    /\ UNCHANGED <<trades, args, responses, fetched, requests, out>>

\* Lines 292-295.
MainStats ==
    /\ pc = "stats"
    /\ IF ~args.stats
       THEN pc' = "status" /\ UNCHANGED <<ret, requests, exit_code>>
       ELSE /\ requests' = Append(requests, StatsUrl(args.pair))
            /\ LET r == get_ml_stats(responses.stats)
                   d == IF r.kind = "return" /\ PayloadTruthy(r.value)
                        THEN display_stats(r.value) ELSE r
               IN  IF d.kind = "raise"
                   THEN Crash(d)
                   ELSE ret' = d /\ pc' = "status" /\ UNCHANGED exit_code
    /\ UNCHANGED <<trades, args, responses, fetched, out>>

\* Lines 298-301.
MainStatus ==
    /\ pc = "status"
    /\ IF ~args.status
       THEN pc' = "verify" /\ UNCHANGED <<ret, requests, exit_code>>
       ELSE /\ requests' = Append(requests, StatusUrl)
            /\ LET r == get_ml_status(responses.status)
                   d == IF r.kind = "return" /\ PayloadTruthy(r.value)
                        THEN display_ml_status(r.value) ELSE r
               IN  IF d.kind = "raise"
                   THEN Crash(d)
                   ELSE ret' = d /\ pc' = "verify" /\ UNCHANGED exit_code
    /\ UNCHANGED <<trades, args, responses, fetched, out>>

\* Lines 304-323: the report's keys are read after the call; a report
\* without warnings or total_trades raises KeyError there.
MainVerify ==
    /\ pc = "verify"
    /\ IF ~args.verify
       THEN pc' = "export" /\ UNCHANGED <<ret, exit_code>>
       ELSE LET r == verify_trade_data(trades)
                d == IF r.kind = "return"
                        /\ ~({"valid", "errors", "warnings", "total_trades"}
                               \subseteq DOMAIN r.value)
                     THEN Raise("KeyError") ELSE r
            IN  IF d.kind = "raise"
                THEN Crash(d)
                ELSE ret' = d /\ pc' = "export" /\ UNCHANGED exit_code
    /\ UNCHANGED <<trades, args, responses, fetched, requests, out>>

\* Lines 326-329: main returns and the process ends with exit code 0.
MainExport ==
    /\ pc = "export"
    /\ IF args.export = ""
       THEN pc' = "exited" /\ exit_code' = 0 /\ UNCHANGED <<ret, out>>
       ELSE \E now \in Timestamps :
              LET r == export_trades(trades, args.export, args.output, now)
              IN  /\ out' = r.file
                  /\ IF r.outcome.kind = "raise"
                     THEN Crash(r.outcome)
                     ELSE ret' = r.outcome /\ pc' = "exited" /\ exit_code' = 0
    /\ UNCHANGED <<trades, args, responses, fetched, requests>>

Next ==
    \/ MainFetch
    \/ MainDisplay
    \/ MainStats
    \/ MainStatus
    \/ MainVerify
    \/ MainExport

Spec == Init /\ [][Next]_vars

(***************************************************************************)
(* Properties of verify_trade_data                                         *)
(***************************************************************************)
Reported == pc = "done" /\ ret.kind = "return"
Report == ret.value
Positions == 1 .. Len(trades)

\* The number of messages of list q with the text at the 1-based position.
CountAt(q, pos, text) ==
    Cardinality({k \in 1 .. Len(q) : q[k].pos = pos /\ q[k].text = text})

\* The fields a message is about.
About(m) ==
    CASE m.text = "Exit time before or equal to entry time" -> {"entry_time", "exit_time"}
      [] m.text = "Invalid datetime format" -> {"entry_time", "exit_time"}
      [] m.text = "Duration mismatch" -> {"entry_time", "exit_time", "duration_seconds"}
      [] OTHER -> {m.field}

\* Both timestamps of the record are present and parse to datetimes that can
\* be compared (both with an offset or both without).
TimesParsed(trade) ==
    /\ Has(trade, "entry_time") /\ Has(trade, "exit_time")
    /\ ParseTime(trade["entry_time"]).kind = "return"
    /\ ParseTime(trade["exit_time"]).kind = "return"
    /\ ParseTime(trade["entry_time"]).value.aware = ParseTime(trade["exit_time"]).value.aware

EntrySecs(trade) == ParseTime(trade["entry_time"]).value.secs
ExitSecs(trade) == ParseTime(trade["exit_time"]).value.secs

\* The field holds a string that is no timestamp.
Malformed(trade, f) ==
    Has(trade, f) /\ IsStr(trade[f]) /\ ParseTime(trade[f]).exc = "ValueError"

\* C1: whenever verify_trade_data returns a report, for empty and non-empty
\* input alike, valid is true exactly when the errors list is empty, whatever
\* the warnings.
C1_ValidIffNoErrors ==
    Reported => (Report.valid <=> Len(Report.errors) = 0)

C1_Witness ==
    /\ Reported
    /\ Len(trades) > 0
    /\ Report.valid
    /\ Len(Report.errors) = 0
    /\ Len(Report.warnings) > 0

\* C2: on the empty list verify_trade_data returns the four-field report
\* valid = false, errors = ["No trades found"], warnings = [], total_trades = 0.
C2_EmptyReport ==
    (pc = "done" /\ trades = <<>>) =>
        /\ ret.kind = "return"
        /\ DOMAIN Report = {"valid", "errors", "warnings", "total_trades"}
        /\ Report.valid = FALSE
        /\ Report.errors = <<NoTradesFound>>
        /\ Report.warnings = <<>>
        /\ Report.total_trades = 0

\* A present field whose value has the wrong type for its check: a price,
\* duration, trend strength or volatility that is no number, or a timestamp
\* that is no string.
WrongTyped(trade) ==
    \/ \E f \in {"entry_price", "exit_price", "duration_seconds", "trend_strength",
                 "volatility"} : Has(trade, f) /\ ~IsNumber(trade[f])
    \/ /\ Has(trade, "entry_time") /\ Has(trade, "exit_time")
       /\ ~IsStr(trade["entry_time"]) \/ ~IsStr(trade["exit_time"])

\* C3: on every non-empty list of mappings verify_trade_data returns a report,
\* in which each record holding a wrong-typed value has a message at its
\* position.
C3_NeverAborts ==
    (pc = "done" /\ Len(trades) > 0) =>
        /\ ret.kind = "return"
        /\ \A i \in Positions :
              WrongTyped(trades[i]) =>
                  \E m \in Range(Report.errors) \cup Range(Report.warnings) : m.pos = i

\* C4: in a returned report, each required field absent from the record at
\* 0-based index i has exactly one error, which names the field and the
\* position i+1, and no other error or warning about that field; a present
\* field has no missing-field error.
C4_MissingFields ==
    (Reported /\ Len(trades) > 0) =>
        \A p \in Positions : \A f \in Range(required_fields) :
            LET missing == {k \in 1 .. Len(Report.errors) :
                               /\ Report.errors[k].pos = p
                               /\ Report.errors[k].text = "Missing required field"
                               /\ Report.errors[k].field = f}
                aboutE == {k \in 1 .. Len(Report.errors) :
                               Report.errors[k].pos = p /\ f \in About(Report.errors[k])}
                aboutW == {k \in 1 .. Len(Report.warnings) :
                               Report.warnings[k].pos = p /\ f \in About(Report.warnings[k])}
            IN  IF Has(trades[p], f)
                THEN missing = {}
                ELSE Cardinality(missing) = 1 /\ aboutE = missing /\ aboutW = {}

C4_Witness ==
    /\ Reported
    /\ \E p \in Positions :
          /\ p > 1
          /\ ~Has(trades[p], "entry_time")
          /\ ~Has(trades[p], "duration_seconds")
          /\ CountAt(Report.errors, p, "Missing required field") = 2

\* C6: in a returned report, a record whose timestamps both parse has exactly
\* one time-ordering error when exit_time <= entry_time and none when
\* exit_time > entry_time, and in both cases a duration-mismatch warning when
\* duration_seconds is present and differs from exit_time - entry_time by
\* more than one second.
C6_TimeOrdering ==
    (Reported /\ Len(trades) > 0) =>
        \A p \in Positions :
            TimesParsed(trades[p]) =>
                /\ CountAt(Report.errors, p, "Exit time before or equal to entry time")
                     = IF ExitSecs(trades[p]) <= EntrySecs(trades[p]) THEN 1 ELSE 0
                /\ (/\ Has(trades[p], "duration_seconds")
                    /\ Abs(ExitSecs(trades[p]) - EntrySecs(trades[p])
                             - trades[p]["duration_seconds"].n) > 1)
                      => CountAt(Report.warnings, p, "Duration mismatch") = 1

C6_Witness ==
    /\ Reported
    /\ \E p \in Positions :
          /\ TimesParsed(trades[p])
          /\ ExitSecs(trades[p]) = EntrySecs(trades[p])
          /\ EntrySecs(trades[p]) > 0
          /\ CountAt(Report.errors, p, "Exit time before or equal to entry time") = 1
          /\ CountAt(Report.warnings, p, "Duration mismatch") = 1

\* C7: in a returned report, a record with parsed timestamps and a present
\* duration_seconds has exactly one duration-mismatch warning when the
\* calculated and the stored duration differ by more than one second and
\* none when they differ by one second or less; a mismatch is never an error.
C7_DurationTolerance ==
    (Reported /\ Len(trades) > 0) =>
        \A p \in Positions :
            (TimesParsed(trades[p]) /\ Has(trades[p], "duration_seconds")) =>
                /\ CountAt(Report.warnings, p, "Duration mismatch")
                     = IF Abs(ExitSecs(trades[p]) - EntrySecs(trades[p])
                                - trades[p]["duration_seconds"].n) > 1
                       THEN 1 ELSE 0
                /\ CountAt(Report.errors, p, "Duration mismatch") = 0
                /\ Cardinality({k \in 1 .. Len(Report.errors) : Report.errors[k].pos = p})
                     = Len(MissingFieldErrors(p - 1, trades[p]))
                       + (IF Has(trades[p], "entry_price") /\ trades[p]["entry_price"].n <= 0
                          THEN 1 ELSE 0)
                       + (IF Has(trades[p], "exit_price") /\ trades[p]["exit_price"].n <= 0
                          THEN 1 ELSE 0)
                       + (IF Has(trades[p], "pnl") /\ ~IsNumber(trades[p]["pnl"])
                          THEN 1 ELSE 0)
                       + (IF ExitSecs(trades[p]) <= EntrySecs(trades[p]) THEN 1 ELSE 0)

C7_Witness ==
    /\ Reported
    /\ \E p, q \in Positions :
          /\ TimesParsed(trades[p]) /\ Has(trades[p], "duration_seconds")
          /\ ExitSecs(trades[p]) - EntrySecs(trades[p])
               - trades[p]["duration_seconds"].n = 1
          /\ CountAt(Report.warnings, p, "Duration mismatch") = 0
          /\ TimesParsed(trades[q]) /\ Has(trades[q], "duration_seconds")
          /\ ExitSecs(trades[q]) - EntrySecs(trades[q])
               - trades[q]["duration_seconds"].n = -2
          /\ CountAt(Report.warnings, q, "Duration mismatch") = 1

\* C8: in a returned report, a record in which entry_time or exit_time is
\* present but is no timestamp has exactly one timestamp-format error and
\* neither a time-ordering error nor a duration-mismatch warning.
C8_MalformedTimestamp ==
    (Reported /\ Len(trades) > 0) =>
        \A p \in Positions :
            (Malformed(trades[p], "entry_time") \/ Malformed(trades[p], "exit_time")) =>
                /\ CountAt(Report.errors, p, "Invalid datetime format") = 1
                /\ CountAt(Report.errors, p, "Exit time before or equal to entry time") = 0
                /\ CountAt(Report.warnings, p, "Duration mismatch") = 0

(***************************************************************************)
(* Properties of export_trades, the fetchers and main                      *)
(***************************************************************************)
\* C9: a CSV export of a non-empty list to a given file name completes and
\* leaves the header row and one row per record in input order, the
\* thirteen columns in the fixed order, a key outside them dropped and an
\* absent field an empty cell.
C9_CsvExport ==
    (pc = "done" /\ Lower(args.export) = "csv" /\ args.output # "" /\ Len(trades) > 0) =>
        /\ ret.kind = "return"
        /\ Len(out.rows) = Len(trades) + 1
        /\ out.rows[1] = required_fields
        /\ \A k \in 1 .. Len(trades) :
              /\ Len(out.rows[k + 1]) = Len(required_fields)
              /\ \A c \in 1 .. Len(required_fields) :
                    out.rows[k + 1][c] =
                        IF Has(trades[k], required_fields[c])
                        THEN CellText(trades[k][required_fields[c]])
                        ELSE ""

\* C10: each fetcher issues one GET and always returns to its caller, with
\* the empty result (an empty list for trades, None for stats and status)
\* when the request fails, the status is 4xx or 5xx, or the body is
\* malformed, no JSON object, or an object without a true success.
C10_FetchAlwaysReturns ==
    pc = "done" =>
        /\ Len(requests) = 1
        /\ ret.kind = "return"
        /\ LET resp == responses.trades
               empty == IF requests[1] = TradesUrl(args.pair)
                        THEN ListPayload(<<>>) ELSE NullPayload
           IN  (\/ resp.net = "error"
                \/ resp.status >= 400
                \/ resp.json # "object"
                \/ resp.success \in {Absent, None, Bool(FALSE)})
                  => ret.value = empty

\* The trade fetch returned at least one record.
FetchedRecords == fetched.pk = "list" /\ Len(fetched.items) > 0
Ended == pc \in {"exited", "crashed"}

\* C5: a run ends with exit code 1 exactly when the trade fetch returned
\* zero records; every run that fetched records goes through to the end of
\* main and ends with exit code 0, whatever the records contain.
C5_ExitCode ==
    Ended =>
        /\ exit_code = 1 <=> ~FetchedRecords
        /\ FetchedRecords => (pc = "exited" /\ exit_code = 0)

====
